---- MODULE Spec2Model ----
(***************************************************************************)
(* project-finder: the recursive directory-classification walk of          *)
(* src/main.rs.  A directory tree is scanned depth first; every visited    *)
(* directory is classified by examine(); a directory that is a project is  *)
(* reported and not descended into, any other directory has its entries    *)
(* listed and its sub-directories visited.                                 *)
(***************************************************************************)
EXTENDS Naturals, Sequences, FiniteSets

(***************************************************************************)
(* Bounds of the model.                                                    *)
(***************************************************************************)
\* number of filesystem nodes of the scanned tree, the root included (Spec)
MaxNodes == 3
\* number of nodes of the trees of WalkSpec
MaxWalkNodes == 4
\* number of nodes of the trees of TwiceSpec
MaxTwiceNodes == 5
\* number of nodes of the trees of FairSpec
MaxFairNodes == 4
\* number of times the scan is run on the same tree (TwiceSpec)
MaxRuns == 2

(***************************************************************************)
(* The filesystem.  Node 1 is the root path given on the command line;     *)
(* node c > 1 is the entry called name[c] of the directory parent[c].      *)
(* The entries of a directory are listed in the order of their numbers.    *)
(* fail = <<d, 0>>: fs::read_dir fails on directory d; fail = <<d, i>>,    *)
(* i > 0: the i-th entry the listing of d yields is an Err; <<0, 0>>: no   *)
(* listing fails.                                                          *)
(***************************************************************************)
MarkerNames == {".git", "package.json", "package-lock.json", "yarn.lock", "node_modules"}

PlainNames == {"src", "docs"}

EntryNames == MarkerNames \cup PlainNames

WalkNames == {".git", "package.json"} \cup PlainNames

FairNames == {".git", "src"}

RootName == "root"

NoFail == <<0, 0>>

VARIABLES
  fs,        \* the directory tree (never changed by the scan)
  stack,     \* the active calls of visit_dirs, innermost last
  status,    \* "idle", "running", "unwinding" (an Err is being returned), "ok", "err"
  stdout,    \* the lines printed so far
  visited,   \* the directories classified so far, with their classification
  listed,    \* the directories whose listing was requested (fs::read_dir)
  cbs,       \* the entries handed to the callback
  run,       \* number of the current run of the scan
  prev       \* output and result of each earlier run

vars == <<fs, stack, status, stdout, visited, listed, cbs, run, prev>>

(***************************************************************************)
(* Paths and the probes of std::path::Path.                                *)
(***************************************************************************)
Children(f, d) == {c \in 2..f.n : f.parent[c] = d}

\* the path of a node
RECURSIVE PathOf(_, _)
PathOf(f, n) ==
  IF n = 1 THEN <<RootName>> ELSE Append(PathOf(f, f.parent[n]), f.name[n])

\* the node a path names, 0 when there is none
Resolve(f, path) ==
  LET hit == {c \in 1..f.n : f.kind[c] # "missing" /\ PathOf(f, c) = path}
  IN  IF hit = {} THEN 0 ELSE CHOOSE c \in hit : TRUE

PathIsDir(f, path) == LET n == Resolve(f, path) IN n # 0 /\ f.kind[n] = "dir"

PathIsFile(f, path) == LET n == Resolve(f, path) IN n # 0 /\ f.kind[n] = "file"

\* the first i components of a path, joined by the separator
RECURSIVE Join(_, _)
Join(path, i) == IF i = 1 THEN path[1] ELSE Join(path, i - 1) \o "/" \o path[i]

\* dir.display().to_string()
display(path) == Join(path, Len(path))

PathExists(f, path) == Resolve(f, path) # 0

\* is_file as Path::exists: the type of the entry is not looked at
is_file_exists(f, path_buf, file_name) == PathExists(f, Append(path_buf, file_name))

is_file(f, path_buf, file_name) == PathIsFile(f, Append(path_buf, file_name))

is_dir(f, path_buf, file_name) == PathIsDir(f, Append(path_buf, file_name))

(***************************************************************************)
(* Project, examine and Display.                                           *)
(***************************************************************************)
None == [tag |-> "None"]

Git(clean, nosync) == [tag |-> "Git", clean |-> clean, nosync |-> nosync]

NodeJS(installed, lockfile) == [tag |-> "NodeJS", installed |-> installed, lockfile |-> lockfile]

Rust(installed) == [tag |-> "Rust", installed |-> installed]

is_project(project) == project.git # None \/ project.kind # None

\* examine without the probe for yarn.lock
examine_no_yarn(f, directory) ==
  LET path_buf == directory
      git == IF PathIsDir(f, Append(path_buf, ".git")) THEN Git(TRUE, TRUE) ELSE None
      has_package_json == is_file(f, path_buf, "package.json")
      has_lockfile == is_file(f, path_buf, "package-lock.json")
      has_node_modules == is_dir(f, path_buf, "node_modules")
      kind == IF has_package_json \/ has_lockfile \/ has_node_modules
                THEN NodeJS(has_node_modules, has_lockfile)
                ELSE None
  IN  [git |-> git, kind |-> kind]

\* examine with the two fields of NodeJS filled the wrong way round
examine_swapped(f, directory) ==
  LET path_buf == directory
      git == IF PathIsDir(f, Append(path_buf, ".git")) THEN Git(TRUE, TRUE) ELSE None
      has_package_json == is_file(f, path_buf, "package.json")
      has_lockfile == is_file(f, path_buf, "package-lock.json") \/ is_file(f, path_buf, "yarn.lock")
      has_node_modules == is_dir(f, path_buf, "node_modules")
      kind == IF has_package_json \/ has_lockfile \/ has_node_modules
                THEN NodeJS(has_lockfile, has_node_modules)
                ELSE None
  IN  [git |-> git, kind |-> kind]

examine(f, directory) ==
  LET path_buf == directory
      git == IF PathIsDir(f, Append(path_buf, ".git")) THEN Git(TRUE, TRUE) ELSE None
      has_package_json == is_file(f, path_buf, "package.json")
      has_lockfile == is_file(f, path_buf, "package-lock.json") \/ is_file(f, path_buf, "yarn.lock")
      has_node_modules == is_dir(f, path_buf, "node_modules")
      kind == IF has_package_json \/ has_lockfile \/ has_node_modules
                THEN NodeJS(has_node_modules, has_lockfile)
                ELSE None
  IN  [git |-> git, kind |-> kind]

\* fmt with the two texts of nosync exchanged
fmt_swapped(project) ==
  LET gitLine ==
        IF project.git # None
          THEN "  found Git with "
                 \o (IF project.git.clean THEN "clean" ELSE "dirty")
                 \o " worktree and "
                 \o (IF project.git.nosync THEN "synced" ELSE "need sync")
          ELSE "no Git found"
      kindLines ==
        IF project.kind = None THEN <<>>
        ELSE IF project.kind.tag = "NodeJS"
          THEN << "  found "
                    \o (IF project.kind.installed THEN "installed" ELSE "uninitialized")
                    \o " Node.js ("
                    \o (IF project.kind.lockfile THEN "has" ELSE "no")
                    \o " lockfile)" >>
          ELSE << "found "
                    \o (IF project.kind.installed THEN "installed" ELSE "uninitialized")
                    \o " Rust" >>
  IN  <<gitLine>> \o kindLines

\* the lines fmt::Display writes for a Project
fmt(project) ==
  LET gitLine ==
        IF project.git # None
          THEN "  found Git with "
                 \o (IF project.git.clean THEN "clean" ELSE "dirty")
                 \o " worktree and "
                 \o (IF project.git.nosync THEN "need sync" ELSE "synced")
          ELSE "no Git found"
      kindLines ==
        IF project.kind = None THEN <<>>
        ELSE IF project.kind.tag = "NodeJS"
          THEN << "  found "
                    \o (IF project.kind.installed THEN "installed" ELSE "uninitialized")
                    \o " Node.js ("
                    \o (IF project.kind.lockfile THEN "has" ELSE "no")
                    \o " lockfile)" >>
          ELSE << "found "
                    \o (IF project.kind.installed THEN "installed" ELSE "uninitialized")
                    \o " Rust" >>
  IN  <<gitLine>> \o kindLines

(***************************************************************************)
(* fs::read_dir: the entries of a directory, in listing order.             *)
(***************************************************************************)
RECURSIVE SortedSeq(_)
SortedSeq(S) ==
  IF S = {} THEN <<>>
  ELSE LET m == CHOOSE x \in S : \A y \in S : x <= y
       IN  <<m>> \o SortedSeq(S \ {m})

RECURSIVE Reverse(_)
Reverse(q) == IF q = <<>> THEN <<>> ELSE Append(Reverse(Tail(q)), Head(q))

\* a listing whose order is not the same from one run to the next
read_dir_unstable(f, dir) ==
  IF run % 2 = 0 THEN Reverse(SortedSeq(Children(f, Resolve(f, dir))))
  ELSE SortedSeq(Children(f, Resolve(f, dir)))

read_dir(f, dir) == SortedSeq(Children(f, Resolve(f, dir)))

\* DirEntry::path
entry_path(f, dir, entry) == Append(dir, f.name[entry])

read_dir_fails(f, dir) == f.fail = <<Resolve(f, dir), 0>>

entry_fails(f, dir, i) == f.fail = <<Resolve(f, dir), i>>

(***************************************************************************)
(* The trees the scan is run on.                                           *)
(***************************************************************************)
\* the nodes are numbered level by level, the entries of a directory in their
\* listing order: every ordered tree has exactly one such numbering
ParentsOk(n, p) == \A c \in 2..n : p[c] < c /\ (c > 2 => p[c - 1] <= p[c])

KindsOk(n, p, k) ==
  /\ k[1] # "dir" => n = 1
  /\ \A c \in 2..n : k[c] \in {"file", "dir"} /\ k[p[c]] = "dir"

NamesOk(n, p, nm) == \A c, e \in 2..n : c # e /\ p[c] = p[e] => nm[c] # nm[e]

FailOk(n, p, k, d, i) ==
  \/ d = 0 /\ i = 0
  \/ d # 0 /\ k[d] = "dir" /\ i <= Cardinality({c \in 2..n : p[c] = d})

Tree(n, p, k, nm, d, i) ==
  [n |-> n,
   parent |-> [c \in 1..n |-> IF c = 1 THEN 0 ELSE p[c]],
   name |-> [c \in 1..n |-> IF c = 1 THEN RootName ELSE nm[c]],
   kind |-> k,
   fail |-> <<d, i>>]

\* every tree of at most maxNodes nodes whose entries are named from names
TreeIs(maxNodes, names) ==
  \E n \in 1..maxNodes :
    \E p \in [2..n -> 1..maxNodes] :
      /\ ParentsOk(n, p)
      /\ \E k \in [1..n -> {"dir", "file", "missing"}] :
           /\ KindsOk(n, p, k)
           /\ \E nm \in [2..n -> names] :
                /\ NamesOk(n, p, nm)
                /\ \E d \in 0..n, i \in 0..n :
                     /\ FailOk(n, p, k, d, i)
                     /\ fs = Tree(n, p, k, nm, d, i)

NotStarted ==
  /\ stack = <<>>
  /\ status = "idle"
  /\ stdout = <<>>
  /\ visited = <<>>
  /\ listed = <<>>
  /\ cbs = <<>>
  /\ run = 0
  /\ prev = <<>>

Init == TreeIs(MaxNodes, EntryNames) /\ NotStarted

\* deeper trees, whose entries are named from fewer names
InitWalk == TreeIs(MaxWalkNodes, WalkNames) /\ NotStarted

InitTwice == TreeIs(MaxTwiceNodes, WalkNames) /\ NotStarted

InitFair == TreeIs(MaxFairNodes, FairNames) /\ NotStarted

(***************************************************************************)
(* main and visit_dirs.  A frame of the stack is one call of visit_dirs:   *)
(* its argument, the position of its loop over the listing, and whether    *)
(* the call has just been entered ("enter") or is in its loop ("loop").    *)
(***************************************************************************)
Frame(dir) == [dir |-> dir, idx |-> 0, pc |-> "enter"]

Top == stack[Len(stack)]

Pop == SubSeq(stack, 1, Len(stack) - 1)

\* a call returns: Ok(()) resumes the caller's loop, or ends main with Ok(())
Returned(st) ==
  /\ stack' = Pop
  /\ status' = IF Len(stack) = 1 THEN st ELSE status

\* main: visit_dirs(Path::new(input_directory), cb)
Main ==
  /\ status = "idle"
  /\ run = 0
  /\ run' = 1
  /\ stack' = <<Frame(<<RootName>>)>>
  /\ status' = "running"
  /\ UNCHANGED <<fs, stdout, visited, listed, cbs, prev>>

\* a path that is no directory taken for an error
NotDirErr ==
  /\ status = "running"
  /\ Top.pc = "enter"
  /\ ~PathIsDir(fs, Top.dir)
  /\ stack' = Pop
  /\ status' = IF Len(stack) = 1 THEN "err" ELSE "unwinding"
  /\ UNCHANGED <<fs, stdout, visited, listed, cbs, run, prev>>

\* line 118: the path is no directory: nothing is done, Ok(()) is returned
NotDir ==
  /\ status = "running"
  /\ Top.pc = "enter"
  /\ ~PathIsDir(fs, Top.dir)
  /\ Returned("ok")
  /\ UNCHANGED <<fs, stdout, visited, listed, cbs, run, prev>>

\* the report without the else: the project's entries are listed as well
ReportNoPrune ==
  /\ status = "running"
  /\ Top.pc = "enter"
  /\ PathIsDir(fs, Top.dir)
  /\ LET project == examine(fs, Top.dir) IN
       /\ is_project(project)
       /\ visited' = Append(visited, [dir |-> Top.dir, project |-> project])
       /\ stdout' = stdout \o <<"[" \o display(Top.dir) \o "]">> \o fmt(project)
  /\ listed' = Append(listed, Top.dir)
  /\ stack' = [stack EXCEPT ![Len(stack)].pc = "loop"]
  /\ UNCHANGED <<fs, status, cbs, run, prev>>

\* lines 119-123: the directory is a project: it is reported, the call returns
Report ==
  /\ status = "running"
  /\ Top.pc = "enter"
  /\ PathIsDir(fs, Top.dir)
  /\ LET project == examine(fs, Top.dir) IN
       /\ is_project(project)
       /\ visited' = Append(visited, [dir |-> Top.dir, project |-> project])
       /\ stdout' = stdout \o <<"[" \o display(Top.dir) \o "]">> \o fmt(project)
  /\ Returned("ok")
  /\ UNCHANGED <<fs, listed, cbs, run, prev>>

\* lines 119-125: the directory is no project: its listing is opened
ReadDir ==
  /\ status = "running"
  /\ Top.pc = "enter"
  /\ PathIsDir(fs, Top.dir)
  /\ LET project == examine(fs, Top.dir) IN
       /\ ~is_project(project)
       /\ visited' = Append(visited, [dir |-> Top.dir, project |-> project])
  /\ ~read_dir_fails(fs, Top.dir)
  /\ listed' = Append(listed, Top.dir)
  /\ stack' = [stack EXCEPT ![Len(stack)].pc = "loop"]
  /\ UNCHANGED <<fs, status, stdout, cbs, run, prev>>

\* line 125: fs::read_dir(dir)? returns the error
ReadDirErr ==
  /\ status = "running"
  /\ Top.pc = "enter"
  /\ PathIsDir(fs, Top.dir)
  /\ LET project == examine(fs, Top.dir) IN
       /\ ~is_project(project)
       /\ visited' = Append(visited, [dir |-> Top.dir, project |-> project])
  /\ read_dir_fails(fs, Top.dir)
  /\ listed' = Append(listed, Top.dir)
  /\ stack' = Pop
  /\ status' = IF Len(stack) = 1 THEN "err" ELSE "unwinding"
  /\ UNCHANGED <<fs, stdout, cbs, run, prev>>

\* line 126: entry? returns the error
EntryErr ==
  /\ status = "running"
  /\ Top.pc = "loop"
  /\ Top.idx < Len(read_dir(fs, Top.dir))
  /\ entry_fails(fs, Top.dir, Top.idx + 1)
  /\ stack' = Pop
  /\ status' = IF Len(stack) = 1 THEN "err" ELSE "unwinding"
  /\ UNCHANGED <<fs, stdout, visited, listed, cbs, run, prev>>

\* lines 127-129: the entry is a directory: visit_dirs(&path, cb)
Descend ==
  /\ status = "running"
  /\ Top.pc = "loop"
  /\ Top.idx < Len(read_dir(fs, Top.dir))
  /\ ~entry_fails(fs, Top.dir, Top.idx + 1)
  /\ LET path == entry_path(fs, Top.dir, read_dir(fs, Top.dir)[Top.idx + 1]) IN
       /\ PathIsDir(fs, path)
       /\ stack' = Append([stack EXCEPT ![Len(stack)].idx = Top.idx + 1], Frame(path))
  /\ UNCHANGED <<fs, status, stdout, visited, listed, cbs, run, prev>>

\* the callback followed by a return instead of the next entry
CallbackBreak ==
  /\ status = "running"
  /\ Top.pc = "loop"
  /\ Top.idx < Len(read_dir(fs, Top.dir))
  /\ ~entry_fails(fs, Top.dir, Top.idx + 1)
  /\ LET path == entry_path(fs, Top.dir, read_dir(fs, Top.dir)[Top.idx + 1]) IN
       /\ ~PathIsDir(fs, path)
       /\ cbs' = Append(cbs, path)
  /\ Returned("ok")
  /\ UNCHANGED <<fs, stdout, visited, listed, run, prev>>

\* a loop that does not get past an entry that is no directory
CallbackStuck ==
  /\ status = "running"
  /\ Top.pc = "loop"
  /\ Top.idx < Len(read_dir(fs, Top.dir))
  /\ ~entry_fails(fs, Top.dir, Top.idx + 1)
  /\ ~PathIsDir(fs, entry_path(fs, Top.dir, read_dir(fs, Top.dir)[Top.idx + 1]))
  /\ UNCHANGED vars

\* lines 130-131: the entry is no directory: cb(&entry)
Callback ==
  /\ status = "running"
  /\ Top.pc = "loop"
  /\ Top.idx < Len(read_dir(fs, Top.dir))
  /\ ~entry_fails(fs, Top.dir, Top.idx + 1)
  /\ LET path == entry_path(fs, Top.dir, read_dir(fs, Top.dir)[Top.idx + 1]) IN
       /\ ~PathIsDir(fs, path)
       /\ cbs' = Append(cbs, path)
  /\ stack' = [stack EXCEPT ![Len(stack)].idx = Top.idx + 1]
  /\ UNCHANGED <<fs, status, stdout, visited, listed, run, prev>>

\* lines 133-136: the listing is exhausted: Ok(())
LoopEnd ==
  /\ status = "running"
  /\ Top.pc = "loop"
  /\ Top.idx = Len(read_dir(fs, Top.dir))
  /\ Returned("ok")
  /\ UNCHANGED <<fs, stdout, visited, listed, cbs, run, prev>>

\* the callee's error dropped: the caller's loop goes on
PropagateSwallow ==
  /\ status = "unwinding"
  /\ status' = "running"
  /\ UNCHANGED <<fs, stack, stdout, visited, listed, cbs, run, prev>>

\* line 129 and line 168: visit_dirs(..)? hands the callee's error on
Propagate ==
  /\ status = "unwinding"
  /\ stack' = Pop
  /\ status' = IF Len(stack) = 1 THEN "err" ELSE "unwinding"
  /\ UNCHANGED <<fs, stdout, visited, listed, cbs, run, prev>>

Next ==
  \/ Main
  \/ NotDir
  \/ Report
  \/ ReadDir
  \/ ReadDirErr
  \/ EntryErr
  \/ Descend
  \/ Callback
  \/ LoopEnd
  \/ Propagate

Spec == Init /\ [][Next]_vars

WalkSpec == InitWalk /\ [][Next]_vars

\* the scan never stops half way: the process runs until main returns
FairSpec == InitFair /\ [][Next]_vars /\ WF_vars(Next)

\* the program is started again on the same tree
Rerun ==
  /\ status \in {"ok", "err"}
  /\ run < MaxRuns
  /\ run' = run + 1
  /\ prev' = Append(prev, [stdout |-> stdout, status |-> status])
  /\ stack' = <<Frame(<<RootName>>)>>
  /\ status' = "running"
  /\ stdout' = <<>>
  /\ visited' = <<>>
  /\ listed' = <<>>
  /\ cbs' = <<>>
  /\ UNCHANGED fs

NextTwice == Next \/ Rerun

TwiceSpec == InitTwice /\ [][NextTwice]_vars

(***************************************************************************)
(* What the properties speak of, stated on the tree itself.                *)
(***************************************************************************)
\* directory d has an entry called nm of kind k
HasEntry(f, d, nm, k) == \E c \in Children(f, d) : f.name[c] = nm /\ f.kind[c] = k

GitMarker(f, d) == HasEntry(f, d, ".git", "dir")

LockMarker(f, d) ==
  HasEntry(f, d, "package-lock.json", "file") \/ HasEntry(f, d, "yarn.lock", "file")

NodeMarker(f, d) ==
  \/ HasEntry(f, d, "package.json", "file")
  \/ LockMarker(f, d)
  \/ HasEntry(f, d, "node_modules", "dir")

\* an entry with the name of a marker and the other type
WrongTyped(f, c) ==
  \/ f.name[c] \in {".git", "node_modules"} /\ f.kind[c] = "file"
  \/ f.name[c] \in {"package.json", "package-lock.json", "yarn.lock"} /\ f.kind[c] = "dir"

\* path q lies strictly below path p
Below(p, q) == Len(p) < Len(q) /\ SubSeq(q, 1, Len(p)) = p

VisitedDirs == {visited[i].dir : i \in DOMAIN visited}

TimesVisited(path) == Cardinality({i \in DOMAIN visited : visited[i].dir = path})

Header(path) == "[" \o display(path) \o "]"

Headers == {Header(PathOf(fs, c)) : c \in 1..fs.n}

Printed == {stdout[i] : i \in DOMAIN stdout}

Finished == status \in {"ok", "err"}

\* the lines of the report of a directory: its header and what follows it up
\* to the next header
RECURSIVE Body(_)
Body(i) ==
  IF i > Len(stdout) \/ stdout[i] \in Headers THEN <<>>
  ELSE <<stdout[i]>> \o Body(i + 1)

ReportOf(path) ==
  LET at == {i \in DOMAIN stdout : stdout[i] = Header(path)}
  IN  IF at = {} THEN <<>>
      ELSE LET i == CHOOSE j \in at : TRUE IN <<stdout[i]>> \o Body(i + 1)

SubDirs(f, d) == {c \in Children(f, d) : f.kind[c] = "dir"}

(***************************************************************************)
(* C1: every visited directory is classified as a project if and only if   *)
(* it directly contains a .git directory or a Node.js marker               *)
(* (package.json, package-lock.json or yarn.lock as a file, node_modules   *)
(* as a directory); that is, exactly when its git fact or its ecosystem    *)
(* fact is present.                                                        *)
(***************************************************************************)
C1_ProjectIffMarker ==
  \A i \in DOMAIN visited :
    LET v == visited[i]
        d == Resolve(fs, v.dir)
    IN  /\ is_project(v.project) <=> (GitMarker(fs, d) \/ NodeMarker(fs, d))
        /\ is_project(v.project) <=> (v.project.git # None \/ v.project.kind # None)

C1_Witness ==
  /\ Finished
  /\ \E i, j \in DOMAIN visited :
       /\ ~is_project(visited[i].project)
       /\ is_project(visited[j].project)
       /\ LET d == Resolve(fs, visited[j].dir)
          IN  HasEntry(fs, d, "yarn.lock", "file") /\ Cardinality(Children(fs, d)) = 1

(***************************************************************************)
(* C2: once a directory is classified as a project, nothing below it is    *)
(* ever visited, listed, handed to the callback or reported, whatever      *)
(* markers it contains, and the project's own entries are never listed.    *)
(***************************************************************************)
C2_Pruning ==
  \A i \in DOMAIN visited :
    is_project(visited[i].project) =>
      LET p == visited[i].dir
      IN  /\ \A j \in DOMAIN visited : ~Below(p, visited[j].dir)
          /\ \A j \in DOMAIN listed : listed[j] # p /\ ~Below(p, listed[j])
          /\ \A j \in DOMAIN cbs : ~Below(p, cbs[j])
          /\ \A j \in DOMAIN stack : ~Below(p, stack[j].dir)
          /\ \A c \in 1..fs.n : Below(p, PathOf(fs, c)) => Header(PathOf(fs, c)) \notin Printed

C2_Witness ==
  /\ status = "ok"
  /\ \E i \in DOMAIN visited, c \in 1..fs.n :
       /\ is_project(visited[i].project)
       /\ Below(visited[i].dir, PathOf(fs, c))
       /\ fs.kind[c] = "dir"
       /\ GitMarker(fs, c)

(***************************************************************************)
(* C3: no directory is visited twice, and when the scan has returned       *)
(* Ok(()), every directory entry of every visited directory that is not a  *)
(* project has been visited exactly once.                                  *)
(***************************************************************************)
C3_RecursionComplete ==
  /\ \A i \in DOMAIN visited : TimesVisited(visited[i].dir) = 1
  /\ status = "ok" =>
       \A i \in DOMAIN visited :
         ~is_project(visited[i].project) =>
           \A c \in SubDirs(fs, Resolve(fs, visited[i].dir)) :
             TimesVisited(PathOf(fs, c)) = 1

C3_Witness ==
  /\ status = "ok"
  /\ \E i \in DOMAIN visited :
       /\ ~is_project(visited[i].project)
       /\ Cardinality(SubDirs(fs, Resolve(fs, visited[i].dir))) >= 2
       /\ \E c \in Children(fs, Resolve(fs, visited[i].dir)) : fs.kind[c] = "file"

(***************************************************************************)
(* C4: a listing that fails (fs::read_dir, or one entry of the listing)    *)
(* makes visit_dirs return the error; from then on every enclosing call    *)
(* returns it in turn, nothing more is visited, listed, handed to the      *)
(* callback or printed, and main ends with the I/O error.                  *)
(***************************************************************************)
Failed == status \in {"unwinding", "err"}

\* the call on top of the stack is about to hit the failing listing
AtFailure ==
  /\ status = "running"
  /\ \/ /\ Top.pc = "enter"
        /\ PathIsDir(fs, Top.dir)
        /\ ~is_project(examine(fs, Top.dir))
        /\ read_dir_fails(fs, Top.dir)
     \/ /\ Top.pc = "loop"
        /\ Top.idx < Len(read_dir(fs, Top.dir))
        /\ entry_fails(fs, Top.dir, Top.idx + 1)

C4_ListingFailureFatal ==
  /\ [][AtFailure => Failed' /\ stdout' = stdout /\ cbs' = cbs /\ stack' = Pop]_vars
  /\ [][Failed => /\ Failed'
                  /\ stack' = Pop
                  /\ stdout' = stdout
                  /\ visited' = visited
                  /\ listed' = listed
                  /\ cbs' = cbs]_vars
  /\ [](status = "unwinding" => stack # <<>>)
  /\ [](stack = <<>> /\ run > 0 => Finished)
  /\ [](status = "err" => fs.fail # NoFail)

\* a report was printed, then the listing failed, and a directory that
\* comes later in it was never visited
C4_Witness ==
  /\ status = "err"
  /\ stdout # <<>>
  /\ \E c \in SubDirs(fs, 1) : PathOf(fs, c) \notin VisitedDirs

(***************************************************************************)
(* C5: the scan of a finite tree ends, with Ok(()) or with the I/O error   *)
(* of a failed listing; the scan of an empty root directory whose listing  *)
(* does not fail ends with Ok(()) and has printed nothing.                 *)
(***************************************************************************)
EmptyRoot == fs.kind[1] = "dir" /\ fs.n = 1 /\ fs.fail = NoFail

C5_Termination ==
  /\ <>Finished
  /\ [](Finished /\ fs.fail = NoFail => status = "ok")
  /\ [](Finished /\ EmptyRoot => status = "ok" /\ stdout = <<>>)

C5_Witness == EmptyRoot /\ status = "ok" /\ listed = <<<<RootName>>>>

(***************************************************************************)
(* C6: when the root path does not exist or is no directory, nothing is    *)
(* classified, listed, handed to the callback or printed, and the scan     *)
(* returns Ok(()).                                                         *)
(***************************************************************************)
C6_RootNotDir ==
  fs.kind[1] # "dir" =>
    /\ stdout = <<>>
    /\ visited = <<>>
    /\ listed = <<>>
    /\ cbs = <<>>
    /\ ~Failed
    /\ (run > 0 /\ stack = <<>> => status = "ok")

C6_Witness == fs.kind[1] = "missing" /\ status = "ok"

(***************************************************************************)
(* C7 as claimed: the report of a directory with a .git directory and no   *)
(* Node.js marker is the bracketed path and one line that says a Git       *)
(* worktree was found, that it is clean and that it is synced.             *)
(***************************************************************************)
GitLine(worktree, sync) == "  found Git with " \o worktree \o " worktree and " \o sync

GitOnly(path) ==
  /\ path \in VisitedDirs
  /\ GitMarker(fs, Resolve(fs, path))
  /\ ~NodeMarker(fs, Resolve(fs, path))

C7_GitOnlyReportSynced ==
  \A c \in 1..fs.n :
    GitOnly(PathOf(fs, c)) /\ Finished =>
      ReportOf(PathOf(fs, c)) = <<Header(PathOf(fs, c)), GitLine("clean", "synced")>>

(***************************************************************************)
(* C7 as amended: the report of a directory with a .git directory and no   *)
(* Node.js marker is the bracketed path and one line that says a Git       *)
(* worktree was found, that it is clean and that it needs a sync; there is *)
(* no ecosystem line.                                                      *)
(***************************************************************************)
C7_GitOnlyReportNeedSync ==
  \A c \in 1..fs.n :
    GitOnly(PathOf(fs, c)) /\ Finished =>
      ReportOf(PathOf(fs, c)) = <<Header(PathOf(fs, c)), GitLine("clean", "need sync")>>

C7_Witness ==
  /\ status = "ok"
  /\ \E c \in 2..fs.n : GitOnly(PathOf(fs, c)) /\ Len(ReportOf(PathOf(fs, c))) = 2

(***************************************************************************)
(* C8: the ecosystem fact of a visited directory is the Node.js variant if *)
(* and only if the directory has package.json, a lockfile or node_modules; *)
(* then installed tells whether node_modules is there and lockfile whether *)
(* a lockfile is there; otherwise the fact is absent.  It is never Rust.   *)
(***************************************************************************)
C8_EcosystemFact ==
  \A i \in DOMAIN visited :
    LET k == visited[i].project.kind
        d == Resolve(fs, visited[i].dir)
    IN  /\ (k # None) <=> NodeMarker(fs, d)
        /\ k # None =>
             /\ k.tag = "NodeJS"
             /\ k.installed = HasEntry(fs, d, "node_modules", "dir")
             /\ k.lockfile = LockMarker(fs, d)

\* a lockfile and node_modules, and no package.json
C8_Witness ==
  \E i \in DOMAIN visited :
    LET k == visited[i].project.kind
        d == Resolve(fs, visited[i].dir)
    IN  /\ k # None
        /\ k.lockfile
        /\ ~k.installed
        /\ ~HasEntry(fs, d, "package.json", "file")
        /\ HasEntry(fs, d, "node_modules", "file")
        /\ Header(visited[i].dir) \in Printed

OnlyWrongTyped(f, d) ==
  /\ \E c \in Children(f, d) : f.name[c] \in MarkerNames
  /\ \A c \in Children(f, d) : f.name[c] \in MarkerNames => WrongTyped(f, c)

C10_TypeSensitive ==
  \A i \in DOMAIN visited :
    LET d == Resolve(fs, visited[i].dir)
    IN  OnlyWrongTyped(fs, d) =>
          /\ ~is_project(visited[i].project)
          /\ Header(visited[i].dir) \notin Printed
          /\ status = "ok" => \A c \in SubDirs(fs, d) : PathOf(fs, c) \in VisitedDirs

\* a directory called package.json next to a file called .git: the walk
\* went into the first
C10_Witness ==
  /\ status = "ok"
  /\ \E i \in DOMAIN visited :
       LET d == Resolve(fs, visited[i].dir)
       IN  /\ OnlyWrongTyped(fs, d)
           /\ \E c \in SubDirs(fs, d) :
                fs.name[c] = "package.json" /\ PathOf(fs, c) \in VisitedDirs
           /\ HasEntry(fs, d, ".git", "file")

====
